---- MODULE Spec2Model ----
(***************************************************************************)
(* Model of scripts/remove_coordinates.py: a script that loads a GeoJSON   *)
(* file, sets the `geometry` value of every feature to None, and writes    *)
(* the document to Cleaned_Demographics_Data.geojson next to the input.    *)
(* The script is a straight line of statements; pc is the statement the    *)
(* interpreter is about to execute.  An uncaught Python exception ends     *)
(* the process with exit status 1 and is recorded in exc.                  *)
(***************************************************************************)
EXTENDS Integers, Sequences, FiniteSets, TLC

VARIABLES
    argv,               \* sys.argv[1:], a sequence of paths
    fs,                 \* the file system: file -> content
    pc,                 \* next statement of the script
    file_path,          \* line 7 / 11
    data,               \* line 26
    features,           \* line 29
    features_processed, \* line 30
    idx,                \* position of the `for` iterator of line 32
    output_file_path,   \* line 42
    exit_status,        \* -1 while the process runs, else its exit status
    exc,                \* "none" or the name of the uncaught exception
    stdout,             \* the messages printed so far by this run
    orig,               \* history: the document as json.load returned it
    fs0,                \* history: the file system when the run started
    reads,              \* history: files opened for reading by this run
    writes,             \* history: files opened for writing by this run
    prev                \* history: outcome of the last run that exited 0

vars == <<argv, fs, pc, file_path, data, features, features_processed, idx,
          output_file_path, exit_status, exc, stdout, orig, fs0, reads,
          writes, prev>>

----------------------------------------------------------------------------
(* Bounds *)

MaxFeatures == 2

----------------------------------------------------------------------------
(* Values.  A document exists in two forms: as JSON text in a file, where  *)
(* the null value is written `null`, and as the Python value json.load     *)
(* builds from it, where the null value is None.                           *)

\* Python's None
Null == "None"

\* JSON's null
JNull == "null"

EmptyMap == [k \in {} |-> JNull]

FeatureKeysOf(g, p) ==
    (IF g = "absent" THEN {} ELSE {"geometry"}) \cup
    (IF p = "absent" THEN {} ELSE {"properties"})

\* a feature that is a mapping, with an optional geometry and properties
MapFeature(g, p) ==
    [fk |-> "map",
     m  |-> [k \in FeatureKeysOf(g, p) |-> IF k = "geometry" THEN g ELSE p]]

\* elements of `features` that are not mappings: JSON null and the JSON
\* string "geometry"
NullFeature == [fk |-> "null", m |-> EmptyMap]
StrFeature  == [fk |-> "strgeo", m |-> EmptyMap]

MapFeatures ==
    {MapFeature(g, p) : g \in {"absent", JNull, "Point"}, p \in {"absent", "A"}}

Features == MapFeatures \cup {NullFeature, StrFeature}

FeatureLists == UNION {[1..n -> Features] : n \in 0..MaxFeatures}

\* the value stored under the key `features` of a document
NoFeatures     == [k |-> "absent", items |-> <<>>]
NullFeaturesV  == [k |-> "null", items |-> <<>>]
ListOf(s)      == [k |-> "list", items |-> s]

FeaturesValues == {NoFeatures, NullFeaturesV} \cup {ListOf(s) : s \in FeatureLists}

TopMaps == {EmptyMap, [k \in {"type"} |-> "FeatureCollection"]}

\* a JSON object: its keys other than `features`, and its `features`
Object(top, fv) == [vk |-> "object", top |-> top, features |-> fv]

\* a JSON value that is not an object (e.g. a top-level array)
NonObject == [vk |-> "other", top |-> EmptyMap, features |-> NoFeatures]

\* the documents a file may hold, as JSON text
Documents == {Object(t, fv) : t \in TopMaps, fv \in FeaturesValues} \cup {NonObject}

\* json.JSONDecoder: null becomes None
decode_scalar(x) == IF x = JNull THEN Null ELSE x

\* json.JSONEncoder: None becomes null
encode_scalar(x) == IF x = Null THEN JNull ELSE x

\* the scalar conversion of one direction, "decode" or "encode"
ConvScalar(x, direction) ==
    IF direction = "decode" THEN decode_scalar(x) ELSE encode_scalar(x)

\* a mapping with every value converted
ConvMap(m, direction) == [k \in DOMAIN m |-> ConvScalar(m[k], direction)]

\* a document with every scalar converted
ConvDoc(d, direction) ==
    [vk |-> d.vk,
     top |-> ConvMap(d.top, direction),
     features |-> [k |-> d.features.k,
                   items |-> [i \in 1..Len(d.features.items) |->
                                 [fk |-> d.features.items[i].fk,
                                  m  |-> ConvMap(d.features.items[i].m, direction)]]]]

----------------------------------------------------------------------------
(* Files *)

Absent  == [kind |-> "absent", val |-> NonObject]
Garbage == [kind |-> "garbage", val |-> NonObject]
Empty   == [kind |-> "empty", val |-> NonObject]

\* json.dump: the text of a Python value
json_dump(v) == [kind |-> "json", val |-> ConvDoc(v, "encode")]

\* json.load succeeds exactly on JSON text, and builds the Python value
json_loads_ok(c) == c.kind = "json"
json_load(c) == ConvDoc(c.val, "decode")

Contents == {Garbage} \cup {[kind |-> "json", val |-> d] : d \in Documents}

Path(d, b) == [dir |-> d, base |-> b]

default_path == Path("data", "Raw_Demographic_Data.geojson")
OutName      == "Cleaned_Demographics_Data.geojson"
CleanedPath  == Path("data", OutName)
BarePath     == Path("", OutName)
NoPath       == Path("", "")

ArgPaths == {default_path, CleanedPath, BarePath}

\* os.path.dirname
dirname(p) == p.dir

\* os.path.join
join(d, b) == Path(d, b)

\* the file a path names, relative to the working directory
FileOf(p) == Path(IF p.dir = "" THEN "." ELSE p.dir, p.base)

Files == {FileOf(p) : p \in ArgPaths}

\* os.path.exists
exists(p) == FileOf(p) \in DOMAIN fs /\ fs[FileOf(p)].kind # "absent"

----------------------------------------------------------------------------
(* Initial state: the process has just been started *)

Argvs == {<<>>} \cup {<<p>> : p \in ArgPaths}

NoRun == [valid |-> FALSE, file |-> FileOf(NoPath), data |-> NonObject, count |-> 0]

Init ==
    /\ argv \in Argvs
    /\ \E c \in Contents, E \in SUBSET Files :
          fs = [f \in Files |-> IF f \in E THEN c ELSE Absent]
    /\ pc = "args"
    /\ file_path = NoPath
    /\ data = NonObject
    /\ features = ListOf(<<>>)
    /\ features_processed = 0
    /\ idx = 1
    /\ output_file_path = NoPath
    /\ exit_status = -1
    /\ exc = "none"
    /\ stdout = <<>>
    /\ orig = NonObject
    /\ fs0 = fs
    /\ reads = {}
    /\ writes = {}
    /\ prev = NoRun

----------------------------------------------------------------------------
(* Helpers for the statements *)

print(msg) == stdout' = Append(stdout, msg)

\* sys.exit(code)
sys_exit(code) ==
    /\ pc' = "done"
    /\ exit_status' = code
    /\ exc' = "none"

\* an exception nobody catches: traceback, exit status 1
Raise(e) ==
    /\ pc' = "done"
    /\ exit_status' = 1
    /\ exc' = e

Goto(l) ==
    /\ pc' = l
    /\ UNCHANGED <<exit_status, exc>>

\* data.get('features'): no default for a missing key
get_features_nodefault(d) ==
    IF d.features.k = "absent" THEN NullFeaturesV ELSE d.features

\* data.get('features', [])
get_features(d) ==
    IF d.features.k = "absent" THEN ListOf(<<>>) ELSE d.features

\* feature.get('geometry') is not None: a null geometry does not count
has_geometry_nonnull(feature) ==
    \/ feature.fk = "strgeo"
    \/ /\ feature.fk = "map"
       /\ "geometry" \in DOMAIN feature.m
       /\ feature.m["geometry"] # Null

\* the test of line 33 left out
has_geometry_always(feature) == TRUE

\* 'geometry' in feature, for a feature on which `in` is defined
has_geometry(feature) ==
    \/ feature.fk = "strgeo"
    \/ feature.fk = "map" /\ "geometry" \in DOMAIN feature.m

\* del feature['geometry']
set_geometry_del(feature) ==
    [feature EXCEPT !.m = [k \in DOMAIN feature.m \ {"geometry"} |-> feature.m[k]]]

\* feature = {'geometry': None} written into the list
set_geometry_only(feature) ==
    [feature EXCEPT !.m = [k \in {"geometry"} |-> Null]]

\* feature['geometry'] = None, on a mapping
set_geometry(feature) ==
    [feature EXCEPT !.m = [k \in DOMAIN feature.m \cup {"geometry"} |->
                              IF k = "geometry" THEN Null ELSE feature.m[k]]]

\* features_processed = 1
increment_reset(n) == 1

\* features_processed += 1
increment(n) == n + 1

\* data['features'] = [f for f in features if 'geometry' in f]
set_features_filtered(d, f) ==
    [d EXCEPT !.features =
        [f EXCEPT !.items = SelectSeq(f.items, LAMBDA x : "geometry" \in DOMAIN x.m)]]

\* if features: data['features'] = features
set_features_nonempty(d, f) ==
    IF f.items = <<>> THEN d ELSE [d EXCEPT !.features = f]

\* data['features'] = features
set_features(d, f) == [d EXCEPT !.features = f]

\* os.path.dirname(file_path) or '.'
input_dir_of(p) == IF dirname(p) = "" THEN "." ELSE dirname(p)

----------------------------------------------------------------------------
(* The statements of the script *)

\* lines 6-16 with sys.exit() in place of sys.exit(1)
ResolveArgs_exit0 ==
    /\ pc = "args"
    /\ IF Len(argv) > 0
       THEN /\ file_path' = argv[1]
            /\ Goto("exists")
            /\ UNCHANGED stdout
       ELSE IF exists(default_path)
       THEN /\ file_path' = default_path
            /\ print("Using default file")
            /\ Goto("exists")
       ELSE /\ stdout' = stdout \o <<"Error: Please provide a GeoJSON file path", "Usage">>
            /\ sys_exit(0)
            /\ UNCHANGED file_path
    /\ UNCHANGED <<argv, fs, data, features, features_processed, idx,
                   output_file_path, orig, fs0, reads, writes, prev>>

\* lines 6-16: the input path from the command line, or the default
ResolveArgs ==
    /\ pc = "args"
    /\ IF Len(argv) > 0
       THEN /\ file_path' = argv[1]
            /\ Goto("exists")
            /\ UNCHANGED stdout
       ELSE IF exists(default_path)
       THEN /\ file_path' = default_path
            /\ print("Using default file")
            /\ Goto("exists")
       ELSE /\ stdout' = stdout \o <<"Error: Please provide a GeoJSON file path", "Usage">>
            /\ sys_exit(1)
            /\ UNCHANGED file_path
    /\ UNCHANGED <<argv, fs, data, features, features_processed, idx,
                   output_file_path, orig, fs0, reads, writes, prev>>

\* lines 19-21 without the sys.exit(1) of line 21
CheckExists_noexit ==
    /\ pc = "exists"
    /\ IF ~exists(file_path)
       THEN print("Error: File not found")
       ELSE UNCHANGED stdout
    /\ Goto("load")
    /\ UNCHANGED <<argv, fs, file_path, data, features, features_processed,
                   idx, output_file_path, orig, fs0, reads, writes, prev>>

\* lines 19-21
CheckExists ==
    /\ pc = "exists"
    /\ IF ~exists(file_path)
       THEN /\ print("Error: File not found")
            /\ sys_exit(1)
       ELSE /\ Goto("load")
            /\ UNCHANGED stdout
    /\ UNCHANGED <<argv, fs, file_path, data, features, features_processed,
                   idx, output_file_path, orig, fs0, reads, writes, prev>>

\* lines 24-26
Load ==
    /\ pc = "load"
    /\ print("Loading GeoJSON file")
    /\ IF ~exists(file_path)
       THEN /\ Raise("FileNotFoundError")
            /\ UNCHANGED <<data, orig, reads>>
       ELSE /\ reads' = reads \cup {FileOf(file_path)}
            /\ IF json_loads_ok(fs[FileOf(file_path)])
               THEN /\ data' = json_load(fs[FileOf(file_path)])
                    /\ orig' = data'
                    /\ Goto("get")
               ELSE /\ Raise("JSONDecodeError")
                    /\ UNCHANGED <<data, orig>>
    /\ UNCHANGED <<argv, fs, file_path, features, features_processed, idx,
                   output_file_path, fs0, writes, prev>>

\* lines 29-30
GetFeatures ==
    /\ pc = "get"
    /\ IF data.vk # "object"
       THEN /\ Raise("AttributeError")
            /\ UNCHANGED <<features, features_processed, idx>>
       ELSE /\ features' = get_features(data)
            /\ features_processed' = 0
            /\ idx' = 1
            /\ Goto("loop")
    /\ UNCHANGED <<argv, fs, file_path, data, output_file_path, stdout, orig,
                   fs0, reads, writes, prev>>

\* line 32, the iterator is exhausted
LoopExit ==
    /\ pc = "loop"
    /\ features.k = "list"
    /\ idx > Len(features.items)
    /\ Goto("assign")
    /\ UNCHANGED <<argv, fs, file_path, data, features, features_processed,
                   idx, output_file_path, stdout, orig, fs0, reads, writes, prev>>

\* line 32, iter(features) on a value that is not a sequence
LoopNotIterable ==
    /\ pc = "loop"
    /\ features.k # "list"
    /\ Raise("TypeError")
    /\ UNCHANGED <<argv, fs, file_path, data, features, features_processed,
                   idx, output_file_path, stdout, orig, fs0, reads, writes, prev>>

\* lines 32-36, one iteration.  `features` is the list object stored in
\* data['features'] whenever the loop body runs, and `feature` is an element
\* of it, so the assignment of line 35 is seen through data as well.
LoopStep ==
    /\ pc = "loop"
    /\ features.k = "list"
    /\ idx <= Len(features.items)
    /\ LET feature == features.items[idx] IN
       IF feature.fk = "null"
       THEN /\ Raise("TypeError")
            /\ UNCHANGED <<features, data, features_processed>>
       ELSE IF has_geometry(feature)
       THEN IF feature.fk # "map"
            THEN /\ Raise("TypeError")
                 /\ UNCHANGED <<features, data, features_processed>>
            ELSE /\ features' = [features EXCEPT !.items[idx] = set_geometry(feature)]
                 /\ data' = IF data.features.k = "list"
                            THEN [data EXCEPT !.features = features']
                            ELSE data
                 /\ features_processed' = increment(features_processed)
                 /\ Goto("loop")
       ELSE /\ Goto("loop")
            /\ UNCHANGED <<features, data, features_processed>>
    /\ idx' = idx + 1
    /\ UNCHANGED <<argv, fs, file_path, output_file_path, stdout, orig, fs0,
                   reads, writes, prev>>

\* line 38
AssignFeatures ==
    /\ pc = "assign"
    /\ data' = set_features(data, features)
    /\ Goto("outpath")
    /\ UNCHANGED <<argv, fs, file_path, features, features_processed, idx,
                   output_file_path, stdout, orig, fs0, reads, writes, prev>>

\* lines 41-44
OutputPath ==
    /\ pc = "outpath"
    /\ output_file_path' = join(input_dir_of(file_path), OutName)
    /\ print("Removing coordinates")
    /\ Goto("open")
    /\ UNCHANGED <<argv, fs, file_path, data, features, features_processed,
                   idx, orig, fs0, reads, writes, prev>>

\* line 45: open(..., 'w') creates the file or truncates it
OpenOutput ==
    /\ pc = "open"
    /\ fs' = [fs EXCEPT ![FileOf(output_file_path)] = Empty]
    /\ writes' = writes \cup {FileOf(output_file_path)}
    /\ Goto("dump")
    /\ UNCHANGED <<argv, file_path, data, features, features_processed, idx,
                   output_file_path, stdout, orig, fs0, reads, prev>>

\* line 46
Dump ==
    /\ pc = "dump"
    /\ fs' = [fs EXCEPT ![FileOf(output_file_path)] = json_dump(data)]
    /\ Goto("exit")
    /\ UNCHANGED <<argv, file_path, data, features, features_processed, idx,
                   output_file_path, stdout, orig, fs0, reads, writes, prev>>

\* lines 48-49
Exit ==
    /\ pc = "exit"
    /\ print("GeoJSON without coordinates saved")
    /\ sys_exit(0)
    /\ UNCHANGED <<argv, fs, file_path, data, features, features_processed,
                   idx, output_file_path, orig, fs0, reads, writes, prev>>

\* the script is started again, on the file system the last run left
NewRun ==
    /\ pc = "done"
    /\ argv' \in Argvs
    /\ prev' = IF exit_status = 0
               THEN [valid |-> TRUE, file |-> FileOf(output_file_path),
                     data |-> data, count |-> features_processed]
               ELSE prev
    /\ pc' = "args"
    /\ file_path' = NoPath
    /\ data' = NonObject
    /\ features' = ListOf(<<>>)
    /\ features_processed' = 0
    /\ idx' = 1
    /\ output_file_path' = NoPath
    /\ exit_status' = -1
    /\ exc' = "none"
    /\ stdout' = <<>>
    /\ orig' = NonObject
    /\ fs0' = fs
    /\ reads' = {}
    /\ writes' = {}
    /\ UNCHANGED fs

Next ==
    \/ ResolveArgs
    \/ CheckExists
    \/ Load
    \/ GetFeatures
    \/ LoopExit
    \/ LoopNotIterable
    \/ LoopStep
    \/ AssignFeatures
    \/ OutputPath
    \/ OpenOutput
    \/ Dump
    \/ Exit
    \/ NewRun

Spec == Init /\ [][Next]_vars

----------------------------------------------------------------------------
(* Vocabulary of the properties *)

\* json.load has returned an object in this run
Loaded == orig.vk = "object"

\* the feature list before the pass and now (empty when the key is absent)
OrigF == orig.features.items
CurF  == data.features.items

\* line 38 has been executed in this run
PassEnded ==
    /\ Loaded
    /\ \/ pc \in {"outpath", "open", "dump", "exit"}
       \/ pc = "done" /\ output_file_path # NoPath

\* `features` is a sequence of mappings
ListOfMaps(d) ==
    /\ d.vk = "object"
    /\ d.features.k = "list"
    /\ \A i \in DOMAIN d.features.items : d.features.items[i].fk = "map"

\* the document conforms to the data model
Conforming(d) ==
    /\ d.vk = "object"
    /\ d.features.k \in {"absent", "list"}
    /\ \A i \in DOMAIN d.features.items : d.features.items[i].fk = "map"

HadGeometry(i) == "geometry" \in DOMAIN OrigF[i].m

\* a feature without its geometry key
Rest(x) == [k \in DOMAIN x.m \ {"geometry"} |-> x.m[k]]

SameShape(a, b) ==
    /\ Len(a) = Len(b)
    /\ \A i \in DOMAIN b : a[i].fk = b[i].fk /\ Rest(a[i]) = Rest(b[i])

----------------------------------------------------------------------------
(* Properties *)

\* C1: when the pass over a sequence of mappings has ended, features_processed
\* is the number of features that had a geometry key before the pass,
\* whatever its value.
C1_ProcessedCount ==
    (PassEnded /\ ListOfMaps(orig)) =>
        features_processed = Cardinality({i \in DOMAIN OrigF : HadGeometry(i)})

C1_Witness ==
    /\ PassEnded
    /\ ListOfMaps(orig)
    /\ Len(OrigF) = 2
    /\ \E i, j \in DOMAIN OrigF :
          /\ HadGeometry(i) /\ OrigF[i].m["geometry"] = Null
          /\ HadGeometry(j) /\ OrigF[j].m["geometry"] = "Point"
    /\ features_processed = 2

\* C2: after the pass every feature that had a geometry key still has it, with
\* the value None, and no feature has gained the key.
C2_GeometryNulled ==
    (PassEnded /\ ListOfMaps(orig)) =>
        \A i \in DOMAIN OrigF :
            /\ i \in DOMAIN CurF
            /\ IF HadGeometry(i)
               THEN /\ "geometry" \in DOMAIN CurF[i].m
                    /\ CurF[i].m["geometry"] = Null
               ELSE "geometry" \notin DOMAIN CurF[i].m

C2_Witness ==
    /\ PassEnded
    /\ ListOfMaps(orig)
    /\ \E i \in DOMAIN OrigF :
          /\ HadGeometry(i)
          /\ OrigF[i].m["geometry"] = "Point"
          /\ CurF[i].m["geometry"] = Null
    /\ \E j \in DOMAIN OrigF : ~HadGeometry(j)

\* C3: from the load on, at every step, the feature list of the document and
\* the list the loop walks have the length of the loaded list and the same
\* elements in the same positions, up to the geometry value.
C3_LengthAndOrder ==
    Loaded =>
        /\ SameShape(CurF, OrigF)
        /\ (pc # "get" => SameShape(features.items, OrigF))

C3_Witness ==
    /\ Loaded
    /\ pc = "loop"
    /\ idx = 2
    /\ Len(OrigF) = 2
    /\ Rest(OrigF[1]) # Rest(OrigF[2])
    /\ CurF[1] # OrigF[1]

\* C4: a feature without a geometry key is the same mapping after the pass.
C4_NoGeometryUntouched ==
    PassEnded =>
        \A i \in DOMAIN OrigF :
            (OrigF[i].fk = "map" /\ ~HadGeometry(i)) =>
                (i \in DOMAIN CurF /\ CurF[i] = OrigF[i])

C4_Witness ==
    /\ PassEnded
    /\ \E i, j \in DOMAIN OrigF :
          /\ ~HadGeometry(i)
          /\ "properties" \in DOMAIN OrigF[i].m
          /\ HadGeometry(j)

\* C5: in a feature with a geometry key every other key keeps its value and
\* no key is added or removed, and the keys of the document other than
\* `features` are unchanged.
C5_OtherKeysKept ==
    PassEnded =>
        /\ data.top = orig.top
        /\ \A i \in DOMAIN OrigF :
              (OrigF[i].fk = "map" /\ HadGeometry(i)) =>
                  /\ i \in DOMAIN CurF
                  /\ DOMAIN CurF[i].m = DOMAIN OrigF[i].m
                  /\ \A k \in DOMAIN OrigF[i].m \ {"geometry"} :
                        CurF[i].m[k] = OrigF[i].m[k]

C5_Witness ==
    /\ PassEnded
    /\ "type" \in DOMAIN orig.top
    /\ \E i \in DOMAIN OrigF :
          /\ HadGeometry(i)
          /\ OrigF[i].m["geometry"] = "Point"
          /\ "properties" \in DOMAIN OrigF[i].m

\* C6: a pass over the document an earlier pass produced ends with that same
\* document and the same features_processed.
C6_Idempotent ==
    (PassEnded /\ prev.valid /\ orig = prev.data) =>
        /\ data = prev.data
        /\ features_processed = prev.count

C6_Witness ==
    /\ PassEnded
    /\ pc = "done"
    /\ prev.valid
    /\ FileOf(file_path) = prev.file
    /\ orig = prev.data
    /\ features_processed >= 1

\* C7: a document without `features`, or with an empty `features`, ends the
\* pass with `features` defined as the empty list and features_processed = 0,
\* and the run exits with status 0.
C7_MissingOrEmpty ==
    (Loaded /\ orig.features \in {NoFeatures, ListOf(<<>>)}) =>
        /\ pc = "done" => exit_status = 0
        /\ PassEnded => /\ data.features = ListOf(<<>>)
                        /\ features_processed = 0

C7_Witness ==
    /\ PassEnded
    /\ pc = "done"
    /\ orig.features = NoFeatures
    /\ data.features = ListOf(<<>>)

\* C8: when the input path named no file at the start of the run, the run
\* prints the error and exits with status 1 right after the existence test,
\* and no file has been opened for writing or changed.
C8_MissingInput ==
    (/\ pc \notin {"args", "exists"}
     /\ file_path # NoPath
     /\ fs0[FileOf(file_path)].kind = "absent") =>
        /\ pc = "done"
        /\ exit_status = 1
        /\ exc = "none"
        /\ \E n \in DOMAIN stdout : stdout[n] = "Error: File not found"
        /\ writes = {}
        /\ fs = fs0

C8_Witness ==
    /\ pc = "done"
    /\ Len(argv) > 0
    /\ file_path = argv[1]
    /\ fs0[FileOf(file_path)].kind = "absent"
    /\ exit_status = 1

\* C9: on a document that conforms to the data model (no `features`, or a
\* sequence of mappings with or without geometry) no exception is raised and
\* the run ends with status 0.
C9_NoErrorPath ==
    (Loaded /\ Conforming(orig)) =>
        /\ exc = "none"
        /\ pc = "done" => exit_status = 0

C9_Witness ==
    /\ pc = "done"
    /\ exit_status = 0
    /\ Loaded
    /\ Len(OrigF) = 2
    /\ \E i \in DOMAIN OrigF : ~HadGeometry(i)

\* C10: without an argument the default path is used when it exists, else the
\* usage message is printed and the run exits non-zero with no file read or
\* written; with an argument that path is used; a run that has written its
\* output exits 0, and status 0 implies the output file holds the document.
C10_ExitProtocol ==
    /\ (pc # "args" /\ argv = <<>> /\ fs0[FileOf(default_path)].kind # "absent")
          => file_path = default_path
    /\ (pc # "args" /\ argv = <<>> /\ fs0[FileOf(default_path)].kind = "absent")
          => /\ pc = "done"
             /\ exit_status = 1
             /\ \E n \in DOMAIN stdout : stdout[n] = "Usage"
             /\ reads = {}
             /\ writes = {}
             /\ fs = fs0
    /\ (pc # "args" /\ Len(argv) > 0) => file_path = argv[1]
    /\ (pc = "done" /\ writes # {}) => exit_status = 0
    /\ exit_status = 0 =>
          /\ FileOf(output_file_path) \in writes
          /\ fs[FileOf(output_file_path)] = json_dump(data)

C10_Witness ==
    /\ pc = "done"
    /\ exit_status = 0
    /\ argv = <<>>
    /\ file_path = default_path
    /\ writes = {FileOf(CleanedPath)}

====
